---- MODULE Spec2Model ----
(***************************************************************************)
(* Model of goat's URL parser (Url::new), its Display rendering and the    *)
(* HTTP/1.0 request of Url::request_response (src/src/lib.rs).             *)
(*                                                                         *)
(* A Rust string is modelled as a sequence of one-character strings.  A    *)
(* call that panics (unwrap / expect / todo!) yields a value of kind       *)
(* "Panic": Url::new returns Url, not Result, so a panic is the only way   *)
(* the function reports a failure.                                         *)
(***************************************************************************)
EXTENDS Integers, Sequences, FiniteSets, TLC

VARIABLES raw, pc, url, rendered, reparsed, server, wire, response

vars == <<raw, pc, url, rendered, reparsed, server, wire, response>>

(***************************************************************************)
(* Bounds of the explored input space.                                     *)
(***************************************************************************)
MaxPieces == 3
MaxNest == 1

(***************************************************************************)
(* String literals of the source.                                          *)
(***************************************************************************)
S_http == <<"h", "t", "t", "p">>
S_https == <<"h", "t", "t", "p", "s">>
S_data == <<"d", "a", "t", "a">>
S_file == <<"f", "i", "l", "e">>
S_view_source == <<"v", "i", "e", "w", "-", "s", "o", "u", "r", "c", "e">>
S_slashslash == <<"/", "/">>
S_443 == <<"4", "4", "3">>
S_80 == <<"8", "0">>
S_GET == <<"G", "E", "T", " ">>
S_HTTP10 == <<" ", "H", "T", "T", "P", "/", "1", ".", "0", "\r", "\n">>
S_HOST == <<"H", "O", "S", "T", " ">>
S_CRLF == <<"\r", "\n">>
S_UserAgent == <<"U", "s", "e", "r", "-", "A", "g", "e", "n", "t", ":", " ",
                 "G", "o", "a", "t", "\r", "\n">>

U16Max == 65535

DigitChars == <<"0", "1", "2", "3", "4", "5", "6", "7", "8", "9">>

DigitSet == {DigitChars[i] : i \in 1..10}

DigitVal(c) == (CHOOSE i \in 1..10 : DigitChars[i] = c) - 1

(***************************************************************************)
(* std string primitives used by the source.                               *)
(***************************************************************************)
None == [some |-> FALSE]

\* str::find: index of the first occurrence of c in s, 0 when absent.
RECURSIVE FindFrom(_, _, _)
FindFrom(s, c, i) ==
    IF i > Len(s) THEN 0
    ELSE IF s[i] = c THEN i
    ELSE FindFrom(s, c, i + 1)

\* str::split_once(c): splits at the FIRST occurrence of c.
split_once(s, c) ==
    LET i == FindFrom(s, c, 1)
    IN  IF i = 0 THEN None
        ELSE [some |-> TRUE, l |-> SubSeq(s, 1, i - 1), r |-> SubSeq(s, i + 1, Len(s))]

\* str::strip_prefix(p)
strip_prefix(s, p) ==
    IF Len(s) >= Len(p) /\ SubSeq(s, 1, Len(p)) = p
    THEN [some |-> TRUE, rest |-> SubSeq(s, Len(p) + 1, Len(s))]
    ELSE None

\* str::ends_with(c) for a one-character pattern
ends_with(s, c) == Len(s) > 0 /\ s[Len(s)] = c

\* <u16 as FromStr>::from_str: an optional single leading '+', then one or
\* more decimal digits whose value fits 16 bits; anything else is an Err.
RECURSIVE ParseDigits(_, _)
ParseDigits(s, acc) ==
    IF s = <<>> THEN acc
    ELSE IF Head(s) \notin DigitSet THEN -1
    ELSE LET v == acc * 10 + DigitVal(Head(s))
         IN  IF v > U16Max THEN -1 ELSE ParseDigits(Tail(s), v)

parse_u16(s) ==
    LET digits == IF Len(s) > 1 /\ Head(s) = "+" THEN Tail(s) ELSE s
        v == IF digits = <<>> THEN -1 ELSE ParseDigits(digits, 0)
    IN  IF v < 0 THEN [ok |-> FALSE] ELSE [ok |-> TRUE, val |-> v]

\* <u16 as Display>::fmt: decimal digits, no sign, no leading zeros.
RECURSIVE u16_to_string(_)
u16_to_string(n) ==
    IF n < 10 THEN <<DigitChars[n + 1]>>
    ELSE Append(u16_to_string(n \div 10), DigitChars[(n % 10) + 1])

(***************************************************************************)
(* Url::new                                                                *)
(***************************************************************************)
Panic(where) == [kind |-> "Panic", at |-> where]

\* default_port with the "https" arm answering the http port
default_port_http_only(scheme) ==
    IF scheme = S_https \/ scheme = S_http THEN S_80 ELSE <<>>

default_port(scheme) ==
    IF scheme = S_https THEN S_443
    ELSE IF scheme = S_http THEN S_80
    ELSE <<>>

\* str::rsplit_once(c): splits at the LAST occurrence of c.
RECURSIVE RFindFrom(_, _, _)
RFindFrom(s, c, i) ==
    IF i < 1 THEN 0
    ELSE IF s[i] = c THEN i
    ELSE RFindFrom(s, c, i - 1)

\* HostPort splitting the authority with rsplit_once instead of split_once
HostPort_rsplit(scheme, host_port) ==
    LET i == RFindFrom(host_port, ":", Len(host_port))
    IN  IF i # 0
        THEN <<SubSeq(host_port, 1, i - 1), SubSeq(host_port, i + 1, Len(host_port))>>
        ELSE <<host_port, default_port(scheme)>>

\* lib.rs 56-59: (host, port text) of the authority
HostPort(scheme, host_port) ==
    LET hp == split_once(host_port, ":")
    IN  IF hp.some THEN <<hp.l, hp.r>>
        ELSE <<host_port, default_port(scheme)>>

\* NormalizePath without the "preserve the slash" step of lib.rs 66-70
NormalizePath_no_preserve(rest, tail) ==
    IF tail # <<>> THEN <<"/">> \o tail ELSE tail

\* lib.rs 61-70: the path of a Web url, from the remainder after "//" and
\* the text after its first '/'
NormalizePath(rest, tail) ==
    LET p1 == IF tail # <<>> THEN <<"/">> \o tail ELSE tail
    IN  IF ends_with(rest, "/") /\ ~ends_with(p1, "/")
        THEN Append(p1, "/")
        ELSE p1

\* lib.rs 50-77: the "http" | "https" arm; rem is the text after "scheme:"
NewWeb(scheme, rem) ==
    LET stripped == strip_prefix(rem, S_slashslash)
    IN  IF ~stripped.some THEN Panic("strip_prefix")
        ELSE LET rest == stripped.rest
                 sp == split_once(rest, "/")
                 host_port == IF sp.some THEN sp.l ELSE rest
                 tail == IF sp.some THEN sp.r ELSE <<>>
                 hp == HostPort(scheme, host_port)
                 port == parse_u16(hp[2])
             IN  IF ~port.ok THEN Panic("port.parse")
                 ELSE [kind |-> "Web", scheme |-> scheme, host |-> hp[1],
                       port |-> port.val, path |-> NormalizePath(rest, tail)]

\* lib.rs 78-84: the "data" arm
NewData(scheme, rem) ==
    LET sp == split_once(rem, ",")
    IN  IF ~sp.some THEN Panic("split_once(',')")
        ELSE [kind |-> "Data", scheme |-> scheme, mimetype |-> sp.l, data |-> sp.r]

\* lib.rs 85-88: the "file" arm
NewFile(scheme, rem) ==
    LET stripped == strip_prefix(rem, S_slashslash)
    IN  IF ~stripped.some THEN Panic("strip_prefix")
        ELSE [kind |-> "File", scheme |-> scheme, path |-> stripped.rest]

\* lib.rs 47-92
RECURSIVE UrlNew(_)
UrlNew(s) ==
    LET so == split_once(s, ":")
    IN  IF ~so.some THEN Panic("split_once(':')")
        ELSE LET scheme == so.l
                 rem == so.r
             IN  IF scheme = S_http \/ scheme = S_https THEN NewWeb(scheme, rem)
                 ELSE IF scheme = S_data THEN NewData(scheme, rem)
                 ELSE IF scheme = S_file THEN NewFile(scheme, rem)
                 ELSE IF scheme = S_view_source
                 THEN LET inner == UrlNew(rem)
                      IN  IF inner.kind = "Panic" THEN inner
                          ELSE [kind |-> "ViewSource", inner |-> inner]
                 ELSE Panic("todo")

(***************************************************************************)
(* impl Display for Url                                                    *)
(***************************************************************************)
RECURSIVE Fmt(_)
Fmt(u) ==
    IF u.kind = "Web"
    THEN u.scheme \o <<":", "/", "/">> \o u.host \o <<":">>
           \o u16_to_string(u.port) \o u.path
    ELSE IF u.kind = "File" THEN u.scheme \o <<":", "/", "/">> \o u.path
    ELSE IF u.kind = "Data"
    THEN u.scheme \o <<":", "/", "/">> \o u.mimetype \o <<",">> \o u.data
    ELSE S_view_source \o <<":">> \o Fmt(u.inner)

(***************************************************************************)
(* Input strings handed to Url::new.                                       *)
(***************************************************************************)
Pieces ==
    { <<"a">>, <<":">>, <<"/">>, <<",">>, <<"+">>, <<"0">>, <<"8", "0">>,
      <<"6", "5", "5", "3", "5">>, <<"6", "5", "5", "3", "6">> }

SchemePrefixes ==
    { <<>>,
      S_http \o <<":">>, S_http \o <<":", "/", "/">>,
      S_https \o <<":", "/", "/">>,
      S_data \o <<":">>,
      S_file \o <<":">>, S_file \o <<":", "/", "/">>,
      <<"f", "t", "p", ":">> }

RECURSIVE Flatten(_)
Flatten(ps) == IF ps = <<>> THEN <<>> ELSE Head(ps) \o Flatten(Tail(ps))

RECURSIVE Nested(_)
Nested(n) == IF n = 0 THEN <<>> ELSE S_view_source \o <<":">> \o Nested(n - 1)

Inputs ==
    { Nested(n) \o sp \o Flatten(ps) :
        n \in 0..MaxNest, sp \in SchemePrefixes,
        ps \in UNION { [1..k -> Pieces] : k \in 0..MaxPieces } }

NoUrl == [kind |-> "None"]

Init ==
    /\ raw \in Inputs
    /\ pc = "start"
    /\ url = NoUrl
    /\ rendered = <<>>
    /\ reparsed = NoUrl
    /\ server = [status |-> <<>>, body |-> <<>>]
    /\ wire = <<>>
    /\ response = [kind |-> "None"]

\* let url = Url::new(raw)
New ==
    /\ pc = "start"
    /\ url' = UrlNew(raw)
    /\ pc' = IF url'.kind = "Panic" THEN "panicked" ELSE "parsed"
    /\ UNCHANGED <<raw, rendered, reparsed, server, wire, response>>

\* format!("{}", url)
Display ==
    /\ pc = "parsed"
    /\ rendered' = Fmt(url)
    /\ pc' = "rendered"
    /\ UNCHANGED <<raw, url, reparsed, server, wire, response>>

\* Url::new(&rendered)
NewRendered ==
    /\ pc = "rendered"
    /\ reparsed' = UrlNew(rendered)
    /\ pc' = "reparsed"
    /\ UNCHANGED <<raw, url, rendered, server, wire, response>>

(***************************************************************************)
(* Url::request_response, one step per fallible call.                      *)
(***************************************************************************)
SocketErr == [kind |-> "Err", err |-> "Socket"]

\* What the mock server of tests::request_response answers: status 200,
\* content-type text/html and a body.
Bodies == { <<"h", "i">>, <<"<", "p", ">">> }

Replies == { [status |-> <<"2", "0", "0">>, body |-> b] : b \in Bodies }

\* lib.rs 165-171
EmptyResponse ==
    [kind |-> "Ok", version |-> <<>>, status |-> <<>>, explanation |-> <<>>,
     headers |-> {}, body |-> [some |-> TRUE, val |-> <<>>]]

\* lib.rs 158, 106-119: to_socket_addrs().unwrap() and next().expect("todo")
\* panic when the host does not resolve.
build_socket_addr ==
    /\ pc = "parsed"
    /\ url.kind = "Web"
    /\ \E resolves \in BOOLEAN :
         IF resolves
         THEN pc' = "resolved" /\ response' = response
         ELSE pc' = "returned" /\ response' = Panic("to_socket_addrs")
    /\ UNCHANGED <<raw, url, rendered, reparsed, server, wire>>

\* lib.rs 173-175: the File, Data and ViewSource arms are todo!()
request_response_todo ==
    /\ pc = "parsed"
    /\ url.kind \in {"File", "Data", "ViewSource"}
    /\ response' = Panic("todo")
    /\ pc' = "returned"
    /\ UNCHANGED <<raw, url, rendered, reparsed, server, wire>>

\* lib.rs 159: TcpStream::connect(addr)?
connect ==
    /\ pc = "resolved"
    /\ \/ /\ \E reply \in Replies : server' = reply
          /\ pc' = "connected"
          /\ response' = response
       \/ /\ pc' = "returned"
          /\ response' = SocketErr
          /\ server' = server
    /\ UNCHANGED <<raw, url, rendered, reparsed, wire>>

\* stream.write_all(bytes)?: the bytes reach the wire and the call goes on
\* to the position after, or the write fails and the call returns the error.
write_all(from, bytes, after) ==
    /\ pc = from
    /\ \/ /\ wire' = wire \o bytes
          /\ pc' = after
          /\ response' = response
       \/ /\ wire' = wire
          /\ pc' = "returned"
          /\ response' = SocketErr
    /\ UNCHANGED <<raw, url, rendered, reparsed, server>>

\* lib.rs 160
write_request_line == write_all("connected", S_GET \o url.path \o S_HTTP10, "sent_get")

\* lib.rs 161
write_host == write_all("sent_get", S_HOST \o url.host \o S_CRLF, "sent_host")

\* lib.rs 162
write_user_agent == write_all("sent_host", S_UserAgent, "sent_agent")

\* lib.rs 163
write_blank_line == write_all("sent_agent", S_CRLF, "sent_blank")

\* lib.rs 164-171: nothing is read from the stream
return_response ==
    /\ pc = "sent_blank"
    /\ response' = EmptyResponse
    /\ pc' = "returned"
    /\ UNCHANGED <<raw, url, rendered, reparsed, server, wire>>

Next ==
    \/ New
    \/ Display
    \/ NewRendered
    \/ build_socket_addr
    \/ request_response_todo
    \/ connect
    \/ write_request_line
    \/ write_host
    \/ write_user_agent
    \/ write_blank_line
    \/ return_response

Spec == Init /\ [][Next]_vars

(***************************************************************************)
(* Vocabulary of the properties, stated on the raw input string.           *)
(***************************************************************************)
HasChar(s, c) == \E i \in 1..Len(s) : s[i] = c

FirstIdx(s, c) ==
    IF HasChar(s, c)
    THEN CHOOSE i \in 1..Len(s) : s[i] = c /\ \A j \in 1..(i - 1) : s[j] # c
    ELSE 0

LastIdx(s, c) ==
    IF HasChar(s, c)
    THEN CHOOSE i \in 1..Len(s) : s[i] = c /\ \A j \in (i + 1)..Len(s) : s[j] # c
    ELSE 0

Before(s, i) == SubSeq(s, 1, i - 1)

After(s, i) == SubSeq(s, i + 1, Len(s))

StartsWith(s, p) == Len(s) >= Len(p) /\ \A i \in 1..Len(p) : s[i] = p[i]

EndsInSlash(s) == s # <<>> /\ s[Len(s)] = "/"

\* The text before the first ':' of the input, and the text after it.
SchemeOf(s) == Before(s, FirstIdx(s, ":"))

RemainderOf(s) == After(s, FirstIdx(s, ":"))

\* The input has the form http://R or https://R ...
IsWebInput(s) ==
    /\ HasChar(s, ":")
    /\ SchemeOf(s) \in {S_http, S_https}
    /\ StartsWith(RemainderOf(s), <<"/", "/">>)

\* ... and this is its R
WebRest(s) == SubSeq(RemainderOf(s), 3, Len(RemainderOf(s)))

\* The text between the leading "//" and the first following '/'
Authority(s) ==
    LET R == WebRest(s)
    IN  IF HasChar(R, "/") THEN Before(R, FirstIdx(R, "/")) ELSE R

SuffixFromFirstSlash(R) ==
    IF HasChar(R, "/") THEN SubSeq(R, FirstIdx(R, "/"), Len(R)) ELSE <<>>

AllDigits(s) == s # <<>> /\ \A i \in 1..Len(s) : s[i] \in DigitSet

\* The value of a digit string, capped just above the largest port.
RECURSIVE CappedValue(_)
CappedValue(s) ==
    IF s = <<>> THEN 0
    ELSE LET v == 10 * CappedValue(Before(s, Len(s))) + DigitVal(s[Len(s)])
         IN  IF v > 65535 THEN 65536 ELSE v

\* A port segment that is a valid integer port: digits, value at most 65535
IsPortText(s) == AllDigits(s) /\ CappedValue(s) <= 65535

\* What Rust's u16 parser accepts: a port text, optionally after one '+'
IsU16Text(s) == IsPortText(s) \/ (s # <<>> /\ Head(s) = "+" /\ IsPortText(Tail(s)))

U16Value(s) == IF Head(s) = "+" THEN CappedValue(Tail(s)) ELSE CappedValue(s)

Returned == pc # "start"

(***************************************************************************)
(* C1: for an input http://R or https://R on which Url::new returns a Web  *)
(* value, the path is the suffix of R starting at R's first '/', empty     *)
(* when R has no '/'; so it is empty or starts with '/', and it ends with  *)
(* '/' exactly when R does.                                                *)
(***************************************************************************)
C1_PathIsSuffixFromFirstSlash ==
    (Returned /\ IsWebInput(raw) /\ url.kind = "Web") =>
        LET R == WebRest(raw)
        IN  /\ url.path = SuffixFromFirstSlash(R)
            /\ (url.path = <<>> \/ Head(url.path) = "/")
            /\ (EndsInSlash(url.path) <=> EndsInSlash(R))

\* http://a/ has been parsed: the path is the preserved slash alone
C1_Witness ==
    /\ pc = "parsed"
    /\ IsWebInput(raw)
    /\ WebRest(raw) = <<"a", "/">>
    /\ url.kind = "Web"
    /\ url.path = <<"/">>

(***************************************************************************)
(* C2: for an http or https input whose authority has no ':', Url::new     *)
(* returns a Web value whose host is the whole authority and whose port is *)
(* 80 for http and 443 for https.                                          *)
(***************************************************************************)
C2_DefaultPort ==
    (Returned /\ IsWebInput(raw) /\ ~HasChar(Authority(raw), ":")) =>
        /\ url.kind = "Web"
        /\ url.host = Authority(raw)
        /\ url.port = (IF SchemeOf(raw) = S_http THEN 80 ELSE 443)

\* https://a/a has been parsed with the https default
C2_Witness ==
    /\ pc = "parsed"
    /\ raw = S_https \o <<":", "/", "/", "a", "/", "a">>
    /\ url.kind = "Web"
    /\ url.host = <<"a">>
    /\ url.port = 443

(***************************************************************************)
(* C3 as stated: for an http or https input whose authority contains a     *)
(* ':', the authority is split at its LAST ':': the host is the text       *)
(* before it and the port the integer value of the text after it.  Read    *)
(* in the claim's favour: only authorities whose text after the last ':'   *)
(* is an integer port are covered.                                         *)
(***************************************************************************)
C3_SplitAtLastColon ==
    LET A == Authority(raw)
    IN  (Returned /\ IsWebInput(raw) /\ HasChar(A, ":")
           /\ IsPortText(After(A, LastIdx(A, ":")))) =>
            /\ url.kind = "Web"
            /\ url.host = Before(A, LastIdx(A, ":"))
            /\ url.port = CappedValue(After(A, LastIdx(A, ":")))

(***************************************************************************)
(* C3 amended: for an http or https input whose authority contains a ':',  *)
(* the authority is split at its FIRST ':': when the text after the first  *)
(* ':' is accepted by the u16 parser, Url::new returns a Web value whose   *)
(* host is the text before the first ':' and whose port is the value of    *)
(* the text after it; and every Web value returned for such an input has   *)
(* that host and that port.                                                *)
(***************************************************************************)
C3_SplitAtFirstColon ==
    LET A == Authority(raw)
        host == Before(A, FirstIdx(A, ":"))
        port == After(A, FirstIdx(A, ":"))
    IN  (Returned /\ IsWebInput(raw) /\ HasChar(A, ":")) =>
            /\ IsU16Text(port) => url.kind = "Web"
            /\ url.kind = "Web" =>
                 /\ IsU16Text(port)
                 /\ url.host = host
                 /\ url.port = U16Value(port)

\* http://a:80 has been parsed into host a, port 80
C3_Witness ==
    /\ pc = "parsed"
    /\ IsWebInput(raw)
    /\ Authority(raw) = <<"a", ":", "8", "0">>
    /\ url.kind = "Web"
    /\ url.host = <<"a">>
    /\ url.port = 80

(***************************************************************************)
(* C4: Url::new returns the typed error MalformedUrl (and does not panic)  *)
(* for every input with no ':', every http, https or file input whose      *)
(* remainder does not start with "//", and every data input whose          *)
(* remainder has no ','.                                                   *)
(***************************************************************************)
LacksDelimiter(s) ==
    \/ ~HasChar(s, ":")
    \/ /\ SchemeOf(s) \in {S_http, S_https, S_file}
       /\ ~StartsWith(RemainderOf(s), <<"/", "/">>)
    \/ /\ SchemeOf(s) = S_data
       /\ ~HasChar(RemainderOf(s), ",")

C4_MalformedUrlIsTypedError ==
    (Returned /\ LacksDelimiter(raw)) =>
        /\ url.kind = "Err"
        /\ url.err = "MalformedUrl"

(***************************************************************************)
(* C5: for an http or https input whose authority contains a ':' followed  *)
(* by a port segment that is not a valid integer port, Url::new returns    *)
(* the typed error InvalidPort (and does not panic).                       *)
(***************************************************************************)
C5_InvalidPortIsTypedError ==
    LET A == Authority(raw)
    IN  (Returned /\ IsWebInput(raw) /\ HasChar(A, ":")
           /\ ~IsPortText(After(A, LastIdx(A, ":")))) =>
            /\ url.kind = "Err"
            /\ url.err = "InvalidPort"

(***************************************************************************)
(* C6: every ViewSource value returned by Url::new wraps a Web value.      *)
(***************************************************************************)
C6_ViewSourceWrapsWeb ==
    (Returned /\ url.kind = "ViewSource") => url.inner.kind = "Web"

(***************************************************************************)
(* C7: for an http or https input x on which Url::new returns a Web value  *)
(* u, Display renders u as scheme://host:port path, the path's trailing    *)
(* slash is present exactly when x ended in '/', and Url::new of the       *)
(* rendering is a Web value equal to u.                                    *)
(***************************************************************************)
C7_RenderParseRoundTrip ==
    (pc = "reparsed" /\ IsWebInput(raw) /\ url.kind = "Web") =>
        /\ rendered = url.scheme \o <<":", "/", "/">> \o url.host \o <<":">>
                        \o u16_to_string(url.port) \o url.path
        /\ (EndsInSlash(url.path) <=> EndsInSlash(raw))
        /\ reparsed = url

(***************************************************************************)
(* C8: when request_response succeeds against a server answering 200 with  *)
(* body B, the Response has version HTTP/1.0, status 200, explanation      *)
(* OK\r\n, the header content-type: text/html and body Some(B).            *)
(***************************************************************************)
C8_ResponseFromServerBytes ==
    (pc = "returned" /\ response.kind = "Ok" /\ server.status = <<"2", "0", "0">>) =>
        /\ response.version = <<"H", "T", "T", "P", "/", "1", ".", "0">>
        /\ response.status = <<"2", "0", "0">>
        /\ response.explanation = <<"O", "K", "\r", "\n">>
        /\ <<"content-type", "text/html">> \in response.headers
        /\ response.body = [some |-> TRUE, val |-> server.body]

(***************************************************************************)
(* C9: on a successful request_response the bytes written are exactly      *)
(* "GET {path} HTTP/1.0\r\n" (with "/" for an empty path), then            *)
(* "Host: {host}\r\n", then the User-Agent line, then "\r\n"; and nothing  *)
(* is written before the connection is established.                        *)
(***************************************************************************)
C9_RequestBytes ==
    /\ (pc \in {"start", "parsed", "resolved"} => wire = <<>>)
    /\ (pc = "returned" /\ response.kind = "Ok") =>
          wire = <<"G", "E", "T", " ">>
                   \o (IF url.path = <<>> THEN <<"/">> ELSE url.path)
                   \o <<" ", "H", "T", "T", "P", "/", "1", ".", "0", "\r", "\n">>
                   \o <<"H", "o", "s", "t", ":", " ">> \o url.host \o <<"\r", "\n">>
                   \o S_UserAgent
                   \o <<"\r", "\n">>

(***************************************************************************)
(* C10: every Web value returned by Url::new has a non-empty host and a    *)
(* port in 1..65535.                                                       *)
(***************************************************************************)
C10_WebHostAndPortValid ==
    (Returned /\ url.kind = "Web") =>
        /\ url.host # <<>>
        /\ url.port \in 1..65535
====
